---- MODULE Spec2Model ----
(***************************************************************************)
(* Model of src/2_jpg_to_json_byGeminiOCR.py: the batch OCR orchestrator   *)
(* (main, process_image), the sliding-window rate control                  *)
(* (wait_for_rate_slot, request_times), the reply unwrapping               *)
(* (extract_text_from_response), the loose JSON extraction                 *)
(* (extract_json_loose) and the error classification                       *)
(* (is_rate_limit_error).                                                  *)
(*                                                                         *)
(* Python str values are sequences of one-character strings.  The key      *)
(* "ファイル名" of the source is written FILENAME_KEY, in ASCII.            *)
(* JSON values are records [t, s, items]: t is the kind, s the text of a   *)
(* string or number, items the members of an object or array in order.     *)
(* Python's None is the JSON value null, as json.loads makes it.           *)
(***************************************************************************)
EXTENDS Integers, Sequences, FiniteSets, TLC

\* ---------------------------------------------------------------- settings
\* src/2_jpg_to_json_byGeminiOCR.py:67-72
MAX_RPM == 4
WINDOW_SECONDS == 60
MAX_RETRIES == 3

\* ------------------------------------------------------------------ bounds
\* Length, in pieces, of the texts a reply is made of when the unwrapping
\* and the extraction are looked at on their own.
MaxPieces == 4
\* Seconds that pass during a run apart from the time slept for: the time
\* the service takes to answer plus the time time.sleep() oversleeps, summed
\* over the run.
MaxDrift == 1
\* Number of files in INPUT_DIR.
MaxFiles == 3

\* -------------------------------------------------------------- str basics
Max(a, b) == IF a >= b THEN a ELSE b

WHITESPACE == {" ", "\n"}

\* str.lower() of one character (ASCII).
LowerChar(c) ==
    CASE c = "A" -> "a" [] c = "B" -> "b" [] c = "C" -> "c" [] c = "D" -> "d"
      [] c = "E" -> "e" [] c = "F" -> "f" [] c = "G" -> "g" [] c = "H" -> "h"
      [] c = "I" -> "i" [] c = "J" -> "j" [] c = "K" -> "k" [] c = "L" -> "l"
      [] c = "M" -> "m" [] c = "N" -> "n" [] c = "O" -> "o" [] c = "P" -> "p"
      [] c = "Q" -> "q" [] c = "R" -> "r" [] c = "S" -> "s" [] c = "T" -> "t"
      [] c = "U" -> "u" [] c = "V" -> "v" [] c = "W" -> "w" [] c = "X" -> "x"
      [] c = "Y" -> "y" [] c = "Z" -> "z"
      [] OTHER -> c

Lower(s) == [i \in 1..Len(s) |-> LowerChar(s[i])]

\* s[i:j] of Python with 1-based inclusive positions; empty when j < i.
Slice(s, i, j) == IF j < i THEN <<>> ELSE SubSeq(s, i, j)

\* s.startswith(m, i-1): m occurs in s at position i.
OccursAt(s, m, i) ==
    /\ i >= 1
    /\ i + Len(m) - 1 <= Len(s)
    /\ \A k \in 1..Len(m) : s[i + k - 1] = m[k]

\* m in s
Contains(s, m) == \E i \in 1..(Len(s) + 1) : OccursAt(s, m, i)

\* s.find(m, from-1) + 1, and 0 when there is none.
Find(s, m, from) ==
    LET hits == {i \in from..(Len(s) + 1) : OccursAt(s, m, i)}
    IN  IF hits = {} THEN 0 ELSE CHOOSE i \in hits : \A j \in hits : i <= j

\* s.rfind(m) + 1, and 0 when there is none.
RFind(s, m) ==
    LET hits == {i \in 1..(Len(s) + 1) : OccursAt(s, m, i)}
    IN  IF hits = {} THEN 0 ELSE CHOOSE i \in hits : \A j \in hits : i >= j

\* s.strip()
Strip(s) ==
    LET keep == {i \in 1..Len(s) : s[i] \notin WHITESPACE}
    IN  IF keep = {} THEN <<>>
        ELSE Slice(s, CHOOSE i \in keep : \A j \in keep : i <= j,
                      CHOOSE i \in keep : \A j \in keep : i >= j)

\* First position >= i of s that holds no whitespace (Len(s)+1 at the end).
RECURSIVE SkipWs(_, _)
SkipWs(s, i) == IF i <= Len(s) /\ s[i] \in WHITESPACE THEN SkipWs(s, i + 1) ELSE i

\* The character of s at position i, and "" outside s.
At(s, i) == IF i >= 1 /\ i <= Len(s) THEN s[i] ELSE ""

\* -------------------------------------------------------------- JSON values
JNull == [t |-> "null", s |-> <<>>, items |-> <<>>]
None == JNull
JLit(kind) == [t |-> kind, s |-> <<>>, items |-> <<>>]
JStr(chars) == [t |-> "str", s |-> chars, items |-> <<>>]
JNum(chars) == [t |-> "num", s |-> chars, items |-> <<>>]
JObj(members) == [t |-> "obj", s |-> <<>>, items |-> members]
JArr(members) == [t |-> "arr", s |-> <<>>, items |-> members]
Member(key, value) == [k |-> key, val |-> value]

\* d[key] = value on a dict / OrderedDict kept as its members in insertion
\* order: an existing key keeps its position and takes the new value.
DictSet(members, key, value) ==
    IF \E i \in 1..Len(members) : members[i].k = key
    THEN [i \in 1..Len(members) |->
            IF members[i].k = key THEN Member(key, value) ELSE members[i]]
    ELSE Append(members, Member(key, value))

\* ------------------------------------------------------------- json.loads
\* The decoder of the standard library that the source calls, on the
\* characters the model uses (no backslash escapes).  A number keeps its
\* text.
DIGITS == {"0", "1", "2", "3", "4", "5", "6", "7", "8", "9"}

Parsed(value, next) == [ok |-> TRUE, val |-> value, pos |-> next]
NoParse == [ok |-> FALSE, val |-> JNull, pos |-> 0]

\* Last position of the run of digits that starts at i (i-1 when none).
RECURSIVE DigitsEnd(_, _)
DigitsEnd(s, i) == IF At(s, i) \in DIGITS THEN DigitsEnd(s, i + 1) ELSE i - 1

\* NUMBER_RE: (-?(?:0|[1-9]\d*))(\.\d+)?([eE][-+]?\d+)?
ParseNumber(s, i) ==
    LET j == IF At(s, i) = "-" THEN i + 1 ELSE i
        intEnd == IF At(s, j) = "0" THEN j ELSE DigitsEnd(s, j)
        fracEnd == IF At(s, intEnd + 1) = "." /\ At(s, intEnd + 2) \in DIGITS
                   THEN DigitsEnd(s, intEnd + 2) ELSE intEnd
        k == IF At(s, fracEnd + 2) \in {"+", "-"} THEN fracEnd + 3 ELSE fracEnd + 2
        expEnd == IF At(s, fracEnd + 1) \in {"e", "E"} /\ At(s, k) \in DIGITS
                  THEN DigitsEnd(s, k) ELSE fracEnd
    IN  IF At(s, j) \in DIGITS
        THEN Parsed(JNum(Slice(s, i, expEnd)), expEnd + 1)
        ELSE NoParse

\* A string body from the opening quote at i to the next quote; a control
\* character inside it is an error (strict mode).
ParseString(s, i) ==
    LET e == Find(s, <<"\"">>, i + 1)
    IN  IF e = 0 \/ \E p \in (i + 1)..(e - 1) : s[p] = "\n"
        THEN NoParse
        ELSE Parsed(JStr(Slice(s, i + 1, e - 1)), e + 1)

RECURSIVE ParseValue(_, _)
RECURSIVE ParseMembers(_, _, _)
RECURSIVE ParseElements(_, _, _)

\* JSONObject after the first key's position: i is at the quote of a key.
ParseMembers(s, i, acc) ==
    IF At(s, i) # "\"" THEN NoParse
    ELSE LET key == ParseString(s, i)
             colon == SkipWs(s, key.pos)
             value == ParseValue(s, SkipWs(s, colon + 1))
             after == SkipWs(s, value.pos)
             acc2 == DictSet(acc, key.val.s, value.val)
         IN  IF ~key.ok \/ At(s, colon) # ":" THEN NoParse
             ELSE IF ~value.ok THEN NoParse
             ELSE IF At(s, after) = "}" THEN Parsed(JObj(acc2), after + 1)
             ELSE IF At(s, after) = "," THEN ParseMembers(s, SkipWs(s, after + 1), acc2)
             ELSE NoParse

\* JSONArray: i is at the start of an element.
ParseElements(s, i, acc) ==
    LET value == ParseValue(s, i)
        after == SkipWs(s, value.pos)
        acc2 == Append(acc, Member(<<>>, value.val))
    IN  IF ~value.ok THEN NoParse
        ELSE IF At(s, after) = "]" THEN Parsed(JArr(acc2), after + 1)
        ELSE IF At(s, after) = "," THEN ParseElements(s, SkipWs(s, after + 1), acc2)
        ELSE NoParse

\* scanner.py_make_scanner._scan_once
ParseValue(s, i) ==
    LET c == At(s, i)
    IN  IF c = "\"" THEN ParseString(s, i)
        ELSE IF c = "{" THEN
            (IF At(s, SkipWs(s, i + 1)) = "}"
             THEN Parsed(JObj(<<>>), SkipWs(s, i + 1) + 1)
             ELSE ParseMembers(s, SkipWs(s, i + 1), <<>>))
        ELSE IF c = "[" THEN
            (IF At(s, SkipWs(s, i + 1)) = "]"
             THEN Parsed(JArr(<<>>), SkipWs(s, i + 1) + 1)
             ELSE ParseElements(s, SkipWs(s, i + 1), <<>>))
        ELSE IF OccursAt(s, <<"n", "u", "l", "l">>, i) THEN Parsed(JNull, i + 4)
        ELSE IF OccursAt(s, <<"t", "r", "u", "e">>, i) THEN Parsed(JLit("true"), i + 4)
        ELSE IF OccursAt(s, <<"f", "a", "l", "s", "e">>, i) THEN Parsed(JLit("false"), i + 5)
        ELSE IF ParseNumber(s, i).ok THEN ParseNumber(s, i)
        ELSE IF OccursAt(s, <<"N", "a", "N">>, i) THEN Parsed(JLit("NaN"), i + 3)
        ELSE IF OccursAt(s, <<"I", "n", "f", "i", "n", "i", "t", "y">>, i)
             THEN Parsed(JLit("Infinity"), i + 8)
        ELSE IF OccursAt(s, <<"-", "I", "n", "f", "i", "n", "i", "t", "y">>, i)
             THEN Parsed(JLit("-Infinity"), i + 9)
        ELSE NoParse

\* json.loads(s): [ok |-> FALSE] stands for the exception it raises, also
\* when text follows the value ("Extra data").
JsonLoads(s) ==
    LET r == ParseValue(s, SkipWs(s, 1))
    IN  IF r.ok /\ SkipWs(s, r.pos) = Len(s) + 1
        THEN [ok |-> TRUE, val |-> r.val]
        ELSE [ok |-> FALSE, val |-> JNull]

\* ---------------------------------------------- extract_text_from_response
\* An Optional[str]: [some |-> FALSE] is None (or a value that is no str).
Some(chars) == [some |-> TRUE, s |-> chars]
Nothing == [some |-> FALSE, s |-> <<>>]

\* A reply of the SDK, as far as the function looks into it:
\*   isNone      the reply is None
\*   text        resp.text
\*   broken      probing resp.candidates raises
\*   candidates  resp.candidates (<<>> for None or an empty list), each with
\*               hasContent (it has .content), parts (content.parts, each
\*               with its .text) and repr (str(candidate))
\*   repr        str(resp); reprFails when str(resp) raises
extract_text_from_response(resp) ==
    IF resp.isNone THEN Nothing
    ELSE IF resp.text.some /\ Strip(resp.text.s) # <<>> THEN Some(Strip(resp.text.s))
    ELSE IF ~resp.broken /\ Len(resp.candidates) > 0 THEN
        LET first == resp.candidates[1]
        IN  IF first.hasContent /\ Len(first.parts) > 0 /\ first.parts[1].text.some
            THEN Some(Strip(first.parts[1].text.s))
            ELSE Some(first.repr)
    ELSE IF resp.reprFails THEN Nothing
    ELSE Some(Strip(resp.repr))

\* ------------------------------------------------------ extract_json_loose
\* The backquote, which a TLA+ string cannot hold, is written "'".
BACKQUOTE == "'"
FENCE == <<BACKQUOTE, BACKQUOTE, BACKQUOTE>>

\* re.sub(r",\s*}", "}", s), from position i on.
RECURSIVE DropTrailingCommas(_, _)
DropTrailingCommas(s, i) ==
    IF i > Len(s) THEN <<>>
    ELSE IF s[i] = "," /\ At(s, SkipWs(s, i + 1)) = "}"
         THEN <<"}">> \o DropTrailingCommas(s, SkipWs(s, i + 1) + 1)
         ELSE <<s[i]>> \o DropTrailingCommas(s, i + 1)

\* re.search(r"'''(?:json)?\s*(.*?)'''", text, DOTALL | IGNORECASE):
\* [found, group1].  The match starts at the first fence that has another
\* fence after it; group 1 runs from behind the optional tag and the
\* whitespace to the next fence.
FencedBlock(text) ==
    LET open == Find(text, FENCE, 1)
        tagged == OccursAt(Lower(text), <<"j", "s", "o", "n">>, open + 3)
        body == SkipWs(text, IF tagged THEN open + 7 ELSE open + 3)
        close == Find(text, FENCE, body)
    IN  IF open = 0 \/ close = 0
        THEN [found |-> FALSE, group1 |-> <<>>]
        ELSE [found |-> TRUE, group1 |-> Slice(text, body, close - 1)]

\* The candidate of the last stage: text[start_obj:end_obj+1], else
\* text[start_arr:end_arr+1], else None (<<>>).
BracketCandidate(text) ==
    LET start_obj == Find(text, <<"{">>, 1)
        end_obj == RFind(text, <<"}">>)
        start_arr == Find(text, <<"[">>, 1)
        end_arr == RFind(text, <<"]">>)
    IN  IF start_obj # 0 /\ end_obj # 0 /\ end_obj > start_obj
        THEN Slice(text, start_obj, end_obj)
        ELSE IF start_arr # 0 /\ end_arr # 0 /\ end_arr > start_arr
        THEN Slice(text, start_arr, end_arr)
        ELSE <<>>

\* Stage 3 of extract_json_loose.
FromBrackets(text) ==
    LET candidate == BracketCandidate(text)
        r == JsonLoads(DropTrailingCommas(candidate, 1))
    IN  IF candidate # <<>> /\ r.ok THEN r.val ELSE None

\* Stage 2 and on.
FromFence(text) ==
    LET m == FencedBlock(text)
        r == JsonLoads(DropTrailingCommas(Strip(m.group1), 1))
    IN  IF m.found /\ r.ok THEN r.val ELSE FromBrackets(text)

extract_json_loose(text) ==
    IF JsonLoads(text).ok THEN JsonLoads(text).val ELSE FromFence(text)

\* ----------------------------------------------------- is_rate_limit_error
markers ==
    { <<"4", "2", "9">>,
      <<"r", "a", "t", "e", " ", "l", "i", "m", "i", "t">>,
      <<"q", "u", "o", "t", "a">>,
      <<"r", "e", "s", "o", "u", "r", "c", "e", "_",
        "e", "x", "h", "a", "u", "s", "t", "e", "d">>,
      <<"t", "o", "o", " ", "m", "a", "n", "y", " ",
        "r", "e", "q", "u", "e", "s", "t", "s">> }

\* exc is str(exc), the message of the exception.
is_rate_limit_error(exc) == \E m \in markers : Contains(Lower(exc), m)

\* ------------------------------------------------------------ input files
\* Code-point order of the characters of the file names.
CHARSET == <<".", "0", "1", "2", "3", "4", "5", "6", "7", "8", "9",
             "A", "B", "C", "D", "E", "F", "G", "H", "I", "J", "K", "L", "M",
             "N", "O", "P", "Q", "R", "S", "T", "U", "V", "W", "X", "Y", "Z", "_",
             "a", "b", "c", "d", "e", "f", "g", "h", "i", "j", "k", "l", "m",
             "n", "o", "p", "q", "r", "s", "t", "u", "v", "w", "x", "y", "z">>
Code(c) == CHOOSE i \in 1..Len(CHARSET) : CHARSET[i] = c

\* a < b on str
RECURSIVE StrLess(_, _)
StrLess(a, b) ==
    IF b = <<>> THEN FALSE
    ELSE IF a = <<>> THEN TRUE
    ELSE IF a[1] # b[1] THEN Code(a[1]) < Code(b[1])
    ELSE StrLess(Tail(a), Tail(b))

\* sorted(S)
RECURSIVE Sorted(_)
Sorted(S) ==
    IF S = {} THEN <<>>
    ELSE LET m == CHOOSE x \in S : \A y \in S \ {x} : StrLess(x, y)
         IN  <<m>> \o Sorted(S \ {m})

\* Path.suffix of a file name
Suffix(name) ==
    LET i == RFind(name, <<".">>)
    IN  IF i > 1 /\ i < Len(name) THEN Slice(name, i, Len(name)) ELSE <<>>

IMAGE_SUFFIXES ==
    { <<".", "j", "p", "g">>, <<".", "j", "p", "e", "g">>, <<".", "p", "n", "g">>,
      <<".", "w", "e", "b", "p">>, <<".", "b", "m", "p">>, <<".", "t", "i", "f", "f">> }

\* The files INPUT_DIR may hold: three images and one other file.
DirUniverse ==
    { <<"b", ".", "P", "N", "G">>, <<"a", ".", "j", "p", "g">>,
      <<"J", ".", "j", "p", "e", "g">>, <<"c", ".", "t", "x", "t">> }

\* ----------------------------------------------------------------- records
\* "ファイル名"
FILENAME_KEY == <<"f", "n">>
ERROR_KEY == <<"e", "r", "r", "o", "r">>
DATA_KEY == <<"d", "a", "t", "a">>
\* "Invalid or no JSON"
INVALID_OR_NO_JSON ==
    <<"I", "n", "v", "a", "l", "i", "d", " ", "o", "r", " ",
      "n", "o", " ", "J", "S", "O", "N">>

\* for k, v in parsed.items(): od[k] = v
RECURSIVE Update(_, _, _)
Update(od, members, i) ==
    IF i > Len(members) THEN od
    ELSE Update(DictSet(od, members[i].k, members[i].val), members, i + 1)

\* The OrderedDict process_image returns for a parsed value.
BuildRecord(name, parsed) ==
    LET od == DictSet(<<>>, FILENAME_KEY, JStr(name))
    IN  IF parsed.t = "obj" THEN Update(od, parsed.items, 1)
        ELSE DictSet(od, DATA_KEY, parsed)

\* The element main stores when process_image returns None.
ErrorRecord(name) ==
    <<Member(FILENAME_KEY, JStr(name)), Member(ERROR_KEY, JStr(INVALID_OR_NO_JSON))>>

\* ------------------------------------------------------------ rate control
\* while request_times and now - request_times[0] > WINDOW_SECONDS: popleft()
RECURSIVE Purge(_, _)
Purge(times, now) ==
    IF times # <<>> /\ now - times[1] > WINDOW_SECONDS
    THEN Purge(Tail(times), now)
    ELSE times

\* wait_for_rate_slot, were the sleep left out.
wait_for_rate_slot_NoSleep(times, now, extra) ==
    LET kept == Purge(times, now)
        now2 == now + extra
    IN  IF Len(kept) >= MAX_RPM
        THEN [times |-> Purge(kept, now2), clock |-> now2, slept |-> 0]
        ELSE [times |-> kept, clock |-> now, slept |-> 0]

\* wait_for_rate_slot, were it to sleep a second time, for a whole window.
wait_for_rate_slot_SleepAgain(times, now, extra) ==
    LET kept == Purge(times, now)
        wait_time == WINDOW_SECONDS - (now - kept[1])
        total == Max(wait_time, 0) + WINDOW_SECONDS
        now2 == now + total + extra
    IN  IF Len(kept) >= MAX_RPM
        THEN [times |-> Purge(kept, now2), clock |-> now2, slept |-> total]
        ELSE [times |-> kept, clock |-> now, slept |-> 0]

\* wait_for_rate_slot() entered with the deque `times` when the clock reads
\* `now`; `extra` is the time that passes, beyond the sleep asked for,
\* until the second reading of the clock.  Gives the deque and the clock's
\* last reading at return, and the time slept.
wait_for_rate_slot(times, now, extra) ==
    LET kept == Purge(times, now)
        wait_time == WINDOW_SECONDS - (now - kept[1])
        now2 == now + Max(wait_time, 0) + extra
    IN  IF Len(kept) >= MAX_RPM
        THEN [times |-> Purge(kept, now2), clock |-> now2, slept |-> Max(wait_time, 0)]
        ELSE [times |-> kept, clock |-> now, slept |-> 0]

\* ------------------------------------------------------- the service's side
\* str
S_a1b2 == <<"{", "\"", "a", "\"", ":", "\"", "1", "\"", ",",
            "\"", "b", "\"", ":", "2", "}">>
S_fenced == FENCE \o <<"j", "s", "o", "n", "\n">> \o
            <<"{", "\"", "a", "\"", ":", "\"", "1", "\"", ",",
              "\"", "b", "\"", ":", "2", ",", "\n", "}">> \o <<"\n">> \o FENCE
S_fn == <<"{", "\"", "f", "n", "\"", ":", "\"", "z", "\"", "}">>
S_arr == <<"[", "1", "]">>
S_prose == <<"n", "o", " ", "t", "e", "x", "t">>
S_null == <<"n", "u", "l", "l">>
S_repr == <<"R", "(", ")">>

\* A reply whose .text is `chars`.
TextReply(chars) ==
    [isNone |-> FALSE, text |-> Some(chars), broken |-> FALSE,
     candidates |-> <<>>, repr |-> S_repr, reprFails |-> FALSE]

\* A reply without .text whose first candidate's first part holds `chars`.
PartReply(chars) ==
    [isNone |-> FALSE, text |-> Nothing, broken |-> FALSE,
     candidates |-> <<[hasContent |-> TRUE, parts |-> <<[text |-> Some(chars)]>>,
                       repr |-> S_repr]>>,
     repr |-> S_repr, reprFails |-> FALSE]

\* The reply None.
NoReply ==
    [isNone |-> TRUE, text |-> Nothing, broken |-> FALSE,
     candidates |-> <<>>, repr |-> <<>>, reprFails |-> FALSE]

\* The locals resp, text and parsed of process_image before the attempt in
\* work has assigned them (None stands for a name not yet bound).
Unbound == [resp |-> NoReply, text |-> Nothing, parsed |-> None]

\* What generate_content may return.
Replies ==
    { TextReply(S_a1b2), TextReply(S_fenced), TextReply(S_fn), TextReply(S_arr),
      TextReply(S_prose), TextReply(S_null), PartReply(S_a1b2), PartReply(<<" ">>) }

\* str(exc) of what upload and generate_content may raise.
Exceptions ==
    { <<"H", "T", "T", "P", " ", "4", "2", "9">>,
      <<"Q", "u", "o", "t", "a", " ", "e", "x", "c", "e", "e", "d", "e", "d">>,
      <<"R", "E", "S", "O", "U", "R", "C", "E", "_",
        "E", "X", "H", "A", "U", "S", "T", "E", "D">>,
      <<"t", "i", "m", "e", "d", " ", "o", "u", "t">>,
      <<"5", "0", "3", " ", "u", "n", "a", "v", "a", "i", "l", "a", "b", "l", "e">> }

\* The text and the value process_image gets from each reply, and the
\* exceptions it raises again (each reply and each message is looked at once).
TextOf == [resp \in Replies |-> extract_text_from_response(resp)]
ParsedOf == [resp \in Replies |-> extract_json_loose(TextOf[resp].s)]
RateLimitErrors == {exc \in Exceptions : is_rate_limit_error(exc)}

\* ------------------------------------------------------------------- state
VARIABLES
    dir,            \* the file names in INPUT_DIR
    image_files,    \* main: the sorted image paths
    results,        \* main: the list of records
    idx,            \* main: position of the image in work (0 before the loop)
    attempt,        \* process_image: number of the attempt in work
    pc,             \* where the run stands
    request_times,  \* the deque of timestamps
    clock,          \* the last reading of time.time()
    drift,          \* seconds passed so far apart from the time slept for
    written,        \* the contents of the output files written, in order
    locals,         \* process_image: resp, text and parsed of the attempt in work
    \* history, read by the properties only
    calls,          \* per attempt, the time its calls to the service began
    admissions,     \* number of wait_for_rate_slot calls that returned
    failed,         \* attempts of the image in work that ended in `continue`
    recOf,          \* per record of results, the position of its image
    fatal,          \* position of the image whose exception ended the loop, or 0
    persisted,      \* number of times the finally block ran
    net,            \* the calls to the service the attempt in work has begun
    stamps          \* timestamps appended since the last admission was granted

vars == <<dir, image_files, results, idx, attempt, pc, request_times, clock, drift,
          written, locals, calls, admissions, failed, recOf, fatal,
          persisted, net, stamps>>

Init ==
    /\ dir \in {S \in SUBSET DirUniverse : Cardinality(S) <= MaxFiles}
    /\ image_files = <<>>
    /\ results = <<>>
    /\ idx = 0
    /\ attempt = 0
    /\ pc = "main"
    /\ request_times = <<>>
    /\ clock = 0
    /\ drift = 0
    /\ written = <<>>
    /\ locals = Unbound
    /\ calls = <<>>
    /\ admissions = 0
    /\ failed = 0
    /\ recOf = <<>>
    /\ fatal = 0
    /\ persisted = 0
    /\ net = <<>>
    /\ stamps = 0

\* image_path.name of the image in work
Name == image_files[idx]

\* main, lines 253-260: enumerate the images; return when there is none.
ListImages ==
    /\ pc = "main"
    /\ image_files' = Sorted({p \in dir : Lower(Suffix(p)) \in IMAGE_SUFFIXES})
    /\ pc' = IF image_files' = <<>> THEN "done" ELSE "for"
    /\ UNCHANGED <<dir, results, idx, attempt, request_times, clock, drift, written,
                   locals, calls, admissions, failed, recOf, fatal,
                   persisted, net, stamps>>

\* main, lines 262-265: the for loop takes the next image and enters
\* process_image, or is exhausted and falls into the finally block.
NextImage ==
    /\ pc = "for"
    /\ IF idx < Len(image_files)
       THEN /\ idx' = idx + 1 /\ attempt' = 1 /\ failed' = 0 /\ pc' = "admit"
            /\ locals' = Unbound
            /\ net' = <<>>
       ELSE /\ pc' = "finally"
            /\ UNCHANGED <<idx, attempt, failed, locals, net>>
    /\ UNCHANGED <<dir, image_files, results, request_times, clock, drift, written,
                   calls, admissions, recOf, fatal, persisted, stamps>>

\* process_image, line 208: wait_for_rate_slot().
Admit ==
    /\ pc = "admit"
    /\ \E extra \in 0..(MaxDrift - drift) :
         LET r == wait_for_rate_slot(request_times, clock, extra)
         IN  /\ request_times' = r.times
             /\ clock' = r.clock
             /\ drift' = drift + (r.clock - clock - r.slept)
    /\ admissions' = admissions + 1
    /\ locals' = Unbound
    /\ net' = <<>>
    /\ stamps' = 0
    /\ pc' = "upload"
    /\ UNCHANGED <<dir, image_files, results, idx, attempt, written, calls,
                   failed, recOf, fatal, persisted>>

\* Store, were the record inserted at the front of the list.
Store_Prepend(record) ==
    /\ results' = <<record>> \o results
    /\ recOf' = <<idx>> \o recOf
    /\ pc' = "for"

\* main, lines 271-275: results.append(...) and back to the loop head.
Store(record) ==
    /\ results' = Append(results, record)
    /\ recOf' = Append(recOf, idx)
    /\ pc' = "for"

\* Retry, were main to store nothing for an image that returned None.
Retry_NoErrorRecord ==
    /\ failed' = failed + 1
    /\ fatal' = fatal
    /\ UNCHANGED <<results, recOf>>
    /\ IF attempt < MAX_RETRIES
       THEN attempt' = attempt + 1 /\ pc' = "admit"
       ELSE attempt' = attempt /\ pc' = "for"

\* Retry, were the attempts to run to max_retries + 1.
Retry_OneMore ==
    /\ failed' = failed + 1
    /\ fatal' = fatal
    /\ IF attempt < MAX_RETRIES + 1
       THEN attempt' = attempt + 1 /\ pc' = "admit" /\ UNCHANGED <<results, recOf>>
       ELSE attempt' = attempt /\ Store(ErrorRecord(Name))

\* Retry, were the next attempt to call the service with no admission.
Retry_NoAdmit ==
    /\ failed' = failed + 1
    /\ fatal' = fatal
    /\ IF attempt < MAX_RETRIES
       THEN attempt' = attempt + 1 /\ pc' = "upload" /\ UNCHANGED <<results, recOf>>
       ELSE attempt' = attempt /\ Store(ErrorRecord(Name))

\* process_image, `continue`: the next attempt, or after the last one
\* `return None`, for which main stores the error element.
Retry ==
    /\ failed' = failed + 1
    /\ fatal' = fatal
    /\ IF attempt < MAX_RETRIES
       THEN attempt' = attempt + 1 /\ pc' = "admit" /\ UNCHANGED <<results, recOf>>
       ELSE attempt' = attempt /\ Store(ErrorRecord(Name))

\* Except, were main to answer the exception with `continue`.
Except_Continue(exc) ==
    IF exc \in RateLimitErrors
    THEN /\ fatal' = idx
         /\ pc' = "for"
         /\ UNCHANGED <<results, recOf, attempt, failed>>
    ELSE Retry

\* Except, were the exception to leave main past its saving of the results.
Except_SkipFinally(exc) ==
    IF exc \in RateLimitErrors
    THEN /\ fatal' = idx
         /\ pc' = "done"
         /\ UNCHANGED <<results, recOf, attempt, failed>>
    ELSE Retry

\* Except, were every exception raised again.
Except_AlwaysBreak(exc) ==
    /\ fatal' = IF exc \in RateLimitErrors THEN idx ELSE fatal
    /\ pc' = "finally"
    /\ UNCHANGED <<results, recOf, attempt, failed>>

\* process_image, lines 240-245, and main, lines 266-269: an exception in
\* the try block is raised again when it is a rate limit, which main
\* answers with `break`; any other is a `continue`.
Except(exc) ==
    IF exc \in RateLimitErrors
    THEN /\ fatal' = idx
         /\ pc' = "finally"
         /\ UNCHANGED <<results, recOf, attempt, failed>>
    ELSE Retry

\* process_image, lines 219-238: the reply is unwrapped and parsed.
Handle(reply) ==
    \E t \in {TextOf[reply]}, p \in {ParsedOf[reply]} :
        IF ~t.some \/ t.s = <<>>
        THEN locals' = [resp |-> reply, text |-> t, parsed |-> None] /\ Retry
        ELSE /\ locals' = [resp |-> reply, text |-> t, parsed |-> p]
             /\ IF p = None THEN Retry
                ELSE /\ Store(BuildRecord(Name, p))
                     /\ UNCHANGED <<attempt, failed, fatal>>

\* process_image, line 210: client.files.upload(...) returns or raises.
Upload ==
    /\ pc = "upload"
    /\ calls' = Append(calls, clock)
    /\ net' = Append(net, "upload")
    /\ \/ pc' = "generate" /\ UNCHANGED <<results, recOf, attempt, failed, fatal>>
       \/ \E exc \in Exceptions : Except(exc)
    /\ UNCHANGED <<dir, image_files, idx, request_times, clock, drift, written,
                   locals, admissions, persisted, stamps>>

\* process_image, lines 212-238: client.models.generate_content(...) raises,
\* or returns a reply, whose time of arrival is appended to request_times.
Generate ==
    /\ pc = "generate"
    /\ net' = Append(net, "generate")
    /\ \/ /\ \E exc \in Exceptions : Except(exc)
          /\ UNCHANGED <<request_times, clock, drift, locals, stamps>>
       \/ \E reply \in Replies, d \in 0..(MaxDrift - drift) :
            /\ clock' = clock + d
            /\ drift' = drift + d
            /\ request_times' = Append(request_times, clock + d)
            /\ stamps' = stamps + 1
            /\ Handle(reply)
    /\ UNCHANGED <<dir, image_files, idx, written, calls, admissions, persisted>>

\* Finally, were the results saved only after a loop that ran to its end.
Finally_NormalPathOnly ==
    /\ pc = "finally"
    /\ written' = IF results # <<>> /\ fatal = 0 THEN Append(written, results) ELSE written
    /\ persisted' = persisted + 1
    /\ pc' = "done"
    /\ UNCHANGED <<dir, image_files, results, idx, attempt, request_times, clock,
                   drift, locals, calls, admissions, failed, recOf, fatal,
                   net, stamps>>

\* Finally, were the file written also for an empty list.
Finally_AlwaysWrite ==
    /\ pc = "finally"
    /\ written' = Append(written, results)
    /\ persisted' = persisted + 1
    /\ pc' = "done"
    /\ UNCHANGED <<dir, image_files, results, idx, attempt, request_times, clock,
                   drift, locals, calls, admissions, failed, recOf, fatal,
                   net, stamps>>

\* main, lines 277-286: the finally block writes the results, if any.
Finally ==
    /\ pc = "finally"
    /\ written' = IF results # <<>> THEN Append(written, results) ELSE written
    /\ persisted' = persisted + 1
    /\ pc' = "done"
    /\ UNCHANGED <<dir, image_files, results, idx, attempt, request_times, clock,
                   drift, locals, calls, admissions, failed, recOf, fatal,
                   net, stamps>>

Next == ListImages \/ NextImage \/ Admit \/ Upload \/ Generate \/ Finally

Spec == Init /\ [][Next]_vars

\* The run with a service that answers every call and a clock that goes on:
\* the one thread of the program takes each of its steps in the end.
FairSpec == Spec /\ WF_vars(Next)

\* ------------------------------------- unwrapping and extraction on their own
\* Lines 219-228 of process_image for one reply out of many: every text made
\* of up to MaxPieces pieces, and every shape of reply.
Pieces ==
    { <<"{">>, <<"}">>, <<"[">>, <<"]">>, <<",">>, <<"1">>,
      <<"\"", "a", "\"", ":">>, <<"n", "u", "l", "l">>, <<"o", "k", " ">>, FENCE }

\* "".join(pieces)
RECURSIVE Join(_)
Join(pieces) == IF pieces = <<>> THEN <<>> ELSE Head(pieces) \o Join(Tail(pieces))

\* Prose followed by an array of two objects.
S_prose_array == <<"o", "k", " ", "[", "{", "}", ",", "{", "}", "]">>

\* The texts made of up to `most` pieces, and the named ones.
Texts(most) ==
    UNION { {Join(f) : f \in [1..n -> Pieces]} : n \in 0..most }
      \cup {S_a1b2, S_fenced, S_fn, S_arr, S_prose, S_null, S_prose_array}

\* What .text of a reply or of a part may be: missing, empty, blank, or text.
FieldTexts == {Nothing, Some(<<>>), Some(<<" ">>), Some(<<" ", "1", "\n">>)}
\* A candidate: with or without .content, without parts or with one part.
CandidateShapes ==
    { [hasContent |-> c, parts |-> ps, repr |-> S_repr] :
        c \in BOOLEAN,
        ps \in {<<>>} \cup {<<[text |-> t]>> : t \in FieldTexts} }
ReplyShapes ==
    { [isNone |-> n, text |-> t, broken |-> b, candidates |-> cs,
       repr |-> rp, reprFails |-> rf] :
        n \in BOOLEAN, t \in FieldTexts, b \in BOOLEAN,
        cs \in {<<>>} \cup {<<c>> : c \in CandidateShapes},
        rp \in {S_repr, <<" ">>}, rf \in BOOLEAN }

InitAttempt ==
    /\ dir = {}
    /\ image_files = <<>>
    /\ results = <<>>
    /\ idx = 0
    /\ attempt = 1
    /\ pc = "unwrap"
    /\ request_times = <<>>
    /\ clock = 0
    /\ drift = 0
    /\ written = <<>>
    /\ locals \in { [resp |-> r, text |-> Nothing, parsed |-> None] :
                      r \in ReplyShapes \cup {TextReply(t) : t \in Texts(MaxPieces)} }
    /\ calls = <<>>
    /\ admissions = 0
    /\ failed = 0
    /\ recOf = <<>>
    /\ fatal = 0
    /\ persisted = 0
    /\ net = <<>>
    /\ stamps = 0

\* process_image, lines 219-223: text = extract_text_from_response(resp),
\* and `continue` when it is empty.
Unwrap ==
    /\ pc = "unwrap"
    /\ locals' = [locals EXCEPT !.text = extract_text_from_response(locals.resp)]
    /\ pc' = IF ~locals'.text.some \/ locals'.text.s = <<>> THEN "continue" ELSE "loose"
    /\ UNCHANGED <<dir, image_files, results, idx, attempt, request_times, clock,
                   drift, written, calls, admissions, failed, recOf, fatal,
                   persisted, net, stamps>>

\* process_image, lines 225-228: parsed = extract_json_loose(text), and
\* `continue` when it is None.
Loose ==
    /\ pc = "loose"
    /\ locals' = [locals EXCEPT !.parsed = extract_json_loose(locals.text.s)]
    /\ pc' = IF locals'.parsed = None THEN "continue" ELSE "success"
    /\ UNCHANGED <<dir, image_files, results, idx, attempt, request_times, clock,
                   drift, written, calls, admissions, failed, recOf, fatal,
                   persisted, net, stamps>>

NextAttempt == Unwrap \/ Loose

SpecAttempt == InitAttempt /\ [][NextAttempt]_vars

\* ------------------------------------------------------------- properties
N == Len(image_files)
Ended == pc = "done"
TXT_FILE == <<"c", ".", "t", "x", "t">>
\* <<1, ..., n>>
Positions(n) == [i \in 1..n |-> i]
HasError(record) == Len(record) = 2 /\ record[2].k = ERROR_KEY

\* C1: the service is never called more than MAX_RPM times within less than
\* WINDOW_SECONDS: any MAX_RPM + 1 consecutive attempts' calls span at least
\* WINDOW_SECONDS, and when an admission has just been granted request_times
\* holds at most MAX_RPM timestamps newer than WINDOW_SECONDS.
C1_AtMostMaxRpmPerWindow ==
    /\ \A i \in 1..(Len(calls) - MAX_RPM) :
         calls[i + MAX_RPM] - calls[i] >= WINDOW_SECONDS
    /\ pc = "upload" =>
         Cardinality({i \in 1..Len(request_times) :
                        clock - request_times[i] < WINDOW_SECONDS}) <= MAX_RPM

\* After a rate-limit error on image k: the run is in or past the saving of
\* the results, no later image was started, the list holds the records of
\* images 1..k-1 in order and is what gets written.
C2_Stopped ==
    fatal # 0 =>
      /\ pc \in {"finally", "done"}
      /\ idx = fatal
      /\ Len(results) = fatal - 1
      /\ recOf = Positions(fatal - 1)
      /\ Ended => written = IF fatal > 1 THEN <<results>> ELSE <<>>
\* After a rate-limit error no step admits, calls, attempts or appends.
C2_NoMoreWork ==
    fatal # 0 =>
      /\ calls' = calls
      /\ admissions' = admissions
      /\ attempt' = attempt
      /\ results' = results
\* C2: once an attempt of image k raised a rate-limit error the batch has
\* stopped: no further attempt is made for image k, no admission and no call
\* to the service is made for the images after it, and the list handed to
\* the saving holds exactly the k-1 records of images 1..k-1 in input order.
C2_RateLimitStopsBatch == [](C2_Stopped) /\ [][C2_NoMoreWork]_vars
C2_Witness ==
    /\ Ended
    /\ fatal = 3
    /\ attempt = 2
    /\ Len(calls) > 3
    /\ Len(written) = 1 /\ Len(written[1]) = 2

\* The saving ran at most once, and once at the end of a run that entered
\* the loop; it wrote the whole list or, for an empty list, nothing.
C3_Once ==
    /\ persisted <= 1
    /\ Len(written) <= 1
    /\ (Ended /\ image_files # <<>>) => persisted = 1
    /\ persisted = 1 =>
         /\ Ended
         /\ written = IF results # <<>> THEN <<results>> ELSE <<>>
\* After the saving no step appends a record, admits or calls the service.
C3_NothingAfter ==
    persisted >= 1 => results' = results /\ calls' = calls /\ admissions' = admissions
\* C3: a run that entered the batch loop saves its results exactly once, on
\* either way out of the loop (all images done, or a rate-limit error at any
\* image and attempt); what is saved is the whole list; after it no record
\* is appended and the service is not called; no run writes twice.
C3_PersistExactlyOnce == [](C3_Once) /\ [][C3_NothingAfter]_vars
C3_Witness ==
    /\ Ended
    /\ persisted = 1
    /\ fatal = 2 /\ attempt = 3
    /\ written = <<results>>

\* C4 as claimed: every run ended by a rate-limit error has written a file.
C4_AbortAlwaysWrites == (Ended /\ fatal # 0) => Len(written) = 1
\* C4: a run ended by a rate-limit error on image k has written a file, the
\* list accumulated so far, exactly when k > 1; when the error comes on the
\* first image the list is empty and no file is written.
C4_AbortWritesUnlessFirst ==
    (Ended /\ fatal # 0) =>
      /\ fatal > 1 => written = <<results>> /\ results # <<>>
      /\ fatal = 1 => written = <<>> /\ results = <<>>
C4_Witness == Ended /\ fatal = 2 /\ Len(written) = 1 /\ Len(written[1]) = 1

\* C5: no file is written when the list is empty at the saving, none is
\* written and no admission or call is made when INPUT_DIR holds no image,
\* and a file is written when the list is not empty at the end of the run.
C5_FileIffResults ==
    /\ (persisted = 1 /\ results = <<>>) => written = <<>>
    /\ dir \subseteq {TXT_FILE} =>
         written = <<>> /\ calls = <<>> /\ admissions = 0 /\ persisted = 0
    /\ (Ended /\ results # <<>>) => written = <<results>>
C5_Witness == persisted = 1 /\ results = <<>> /\ written = <<>> /\ Len(calls) = 3

\* C6 as claimed: at the end the list holds one record for each image that
\* was attempted, in order.
C6_OneRecordPerAttempted == Ended => recOf = Positions(idx) /\ Len(results) = idx
\* C6: at the end the list holds one record for each image whose processing
\* ran to its end, in order: every image attempted but the one whose
\* rate-limit error ended the batch; images never reached have none.
C6_OneRecordPerCompleted ==
    Ended =>
      /\ Len(results) = Len(recOf)
      /\ recOf = Positions(IF fatal = 0 THEN idx ELSE idx - 1)
      /\ fatal = 0 => idx = N
      /\ fatal # 0 => idx = fatal
C6_Witness == Ended /\ fatal = 3 /\ idx = 3 /\ Len(results) = 2 /\ attempt = 1

\* Record i was made for image i, and there are no more records than
\* images started.
C7_Prefix ==
    /\ idx <= N
    /\ Len(results) <= idx
    /\ recOf = Positions(Len(results))
\* A step leaves every record of the list as it is, where it is.
C7_AppendOnly ==
    /\ Len(results') >= Len(results)
    /\ \A i \in 1..Len(results) : results'[i] = results[i]
\* C7: the list is a position-wise prefix of the sorted images: record i
\* was made for image i, there are no more records than images started, and
\* a record once appended is never changed, removed or moved, whichever
\* images needed retries.
C7_ResultsPrefixOfImages == [](C7_Prefix) /\ [][C7_AppendOnly]_vars
C7_Witness ==
    /\ Len(results) = 3
    /\ HasError(results[1])
    /\ ~HasError(results[2])
    /\ HasError(results[3])

\* C8: when all MAX_RETRIES attempts of an image ended in empty text,
\* unparsable text or an exception that is no rate limit, its record is the
\* last of the list and holds exactly the file name and the error field,
\* and the run goes on with the loop.
C8_ExhaustedGivesErrorRecord ==
    failed >= MAX_RETRIES =>
      /\ failed = MAX_RETRIES
      /\ Len(results) = idx
      /\ results[idx] = << [k |-> FILENAME_KEY, val |-> JStr(image_files[idx])],
                           [k |-> ERROR_KEY, val |-> JStr(INVALID_OR_NO_JSON)] >>
      /\ fatal = 0
      /\ pc = "for" \/ (idx = N /\ pc \in {"finally", "done"})
C8_Witness == failed = MAX_RETRIES /\ idx = 1 /\ N = 2 /\ pc = "for" /\ calls = <<0, 0, 0>>

\* C9: only a rate-limit error ends the batch early: the loop is left before
\* the last image only with such an error, and a run without one ends with
\* N records, one per image.
C9_OnlyRateLimitEndsBatch ==
    /\ (pc \in {"finally", "done"} /\ image_files # <<>> /\ idx < N) => fatal # 0
    /\ (Ended /\ fatal = 0) => idx = N /\ Len(results) = N
C9_Witness ==
    /\ Ended /\ fatal = 0 /\ N = 3 /\ Len(results) = 3
    /\ HasError(results[1])
    /\ Len(calls) = 9

\* C10: every record has the file name key first, and under it the name of
\* the image the record was made for.
C10_FilenameFirst ==
    \A i \in 1..Len(results) :
      /\ results[i][1].k = FILENAME_KEY
      /\ results[i][1].val = JStr(image_files[recOf[i]])

\* ------------------------------------------- properties of the attempt
\* The attempt in work has unwrapped a reply into a text that is not empty.
HasText == locals.text.some /\ locals.text.s # <<>>
\* The three stages of the extraction, each on its own, on the text s:
\* whether the stage parses something, and the value it parses.
Stage1(s) == JsonLoads(s)
Stage2(s) ==
    LET m == FencedBlock(s)
        r == JsonLoads(DropTrailingCommas(Strip(m.group1), 1))
    IN  [ok |-> m.found /\ r.ok, val |-> r.val]
Stage3(s) ==
    LET c == BracketCandidate(s)
        r == JsonLoads(DropTrailingCommas(c, 1))
    IN  [ok |-> c # <<>> /\ r.ok, val |-> r.val]
\* A stage of the extraction parses something out of the text s.
Extractable(s) == Stage1(s).ok \/ Stage2(s).ok \/ Stage3(s).ok
\* The texts of the replies: those that are JSON as they stand, and those a
\* stage of the extraction parses something out of.
ValidJsonTexts == {TextOf[r].s : r \in {q \in Replies : JsonLoads(TextOf[q].s).ok}}
ExtractableTexts == {TextOf[r].s : r \in {q \in Replies : Extractable(TextOf[q].s)}}
\* The record the claims describe for an image and the value parsed for it.
ClaimedRecord(name, value) ==
    IF value.t = "obj"
    THEN <<Member(FILENAME_KEY, JStr(name))>> \o value.items
    ELSE <<Member(FILENAME_KEY, JStr(name)), Member(DATA_KEY, value)>>

\* C11: when the attempt has yielded a parsed value, the record of the image
\* is stored, and it is the file name field followed by all fields of the
\* parsed object in their order when the value is an object, and by the one
\* field "data" holding the value when it is not.
C11_RecordFromParsed ==
    (HasText /\ locals.text.s \in ExtractableTexts) =>
      /\ Len(results) = idx
      /\ results[idx] = ClaimedRecord(Name, locals.parsed)

\* The timestamps that remain when wait_for_rate_slot has purged at entry.
Retained == Purge(request_times, clock)
\* A step that is a call of wait_for_rate_slot returns only when the oldest
\* retained timestamp is WINDOW_SECONDS old, having slept for WINDOW_SECONDS
\* less that timestamp's age and not less than 0, when MAX_RPM or more were
\* retained; it returns at once, with the retained timestamps, otherwise.
C12_Step ==
    (pc = "admit" /\ pc' = "upload") =>
      IF Len(Retained) >= MAX_RPM
      THEN /\ clock' - Retained[1] >= WINDOW_SECONDS
           /\ (clock' - clock) - (drift' - drift)
                = Max(WINDOW_SECONDS - (clock - Retained[1]), 0)
      ELSE /\ clock' = clock
           /\ drift' = drift
           /\ request_times' = Retained
\* C12: an admission asked for while MAX_RPM or more timestamps remain in
\* the window does not return before the oldest of them is WINDOW_SECONDS
\* old (it sleeps WINDOW_SECONDS less that timestamp's age, at least 0); with
\* fewer than MAX_RPM it returns without sleeping.
C12_AdmissionWaits == [][C12_Step]_vars
C12_Witness ==
    /\ pc = "upload"
    /\ admissions = MAX_RPM + 1
    /\ request_times = <<0, 0, 0, 0>>
    /\ clock = WINDOW_SECONDS
    /\ drift = 0

\* extract_json_loose has run on the text of the reply.
Extracted == HasText /\ pc \in {"continue", "success"}

\* C13: the result of extract_json_loose is the value of the first stage
\* that parses: the value json.loads gives for the whole text when the text
\* is JSON, else that of the fenced block, else that of the span from the
\* first to the last bracket; and it is None only if every stage fails.
C13_FirstSuccessChain ==
    Extracted =>
      LET s == locals.text.s
      IN  /\ Stage1(s).ok => locals.parsed = Stage1(s).val
          /\ (~Stage1(s).ok /\ Stage2(s).ok) => locals.parsed = Stage2(s).val
          /\ (~Stage1(s).ok /\ ~Stage2(s).ok /\ Stage3(s).ok) =>
               locals.parsed = Stage3(s).val
          /\ locals.parsed = None => ~Extractable(s)

\* The four extraction paths on the reply r, in their order, each with what
\* it yields (Nothing when the path is not there): the reply's text field,
\* the text of the first part of the first candidate, the first candidate
\* as a string, the whole reply as a string.
Paths(r) ==
    LET has == ~r.broken /\ Len(r.candidates) > 0
        first == r.candidates[1]
    IN  << r.text,
           IF has /\ first.hasContent /\ Len(first.parts) > 0
           THEN first.parts[1].text ELSE Nothing,
           IF has THEN Some(first.repr) ELSE Nothing,
           IF r.reprFails THEN Nothing ELSE Some(r.repr) >>
NonBlank(x) == x.some /\ Strip(x.s) # <<>>
\* The reply has been unwrapped.
Unwrapped == pc \in {"loose", "continue", "success"}

\* C14: the text unwrapped from a reply is what the first of the four paths
\* that yields a string that is not blank yields, and it is blank or None
\* only when no path yields such a string.
C14_FirstNonBlankPathWins ==
    (Unwrapped /\ ~locals.resp.isNone) =>
      LET paths == Paths(locals.resp)
          good == {i \in 1..4 : NonBlank(paths[i])}
          first == CHOOSE i \in good : \A j \in good : i <= j
      IN  IF good = {}
          THEN ~locals.text.some \/ Strip(locals.text.s) = <<>>
          ELSE locals.text.some /\ Strip(locals.text.s) = Strip(paths[first].s)

\* How the attempt that has just ended ended: the call raised, the reply
\* held no text, or it held a text no stage of the extraction parses.
EndedInException == locals = Unbound
EndedInEmptyText == locals.resp # NoReply /\ ~HasText
EndedInUnparsableText == HasText /\ locals.text.s \notin ExtractableTexts
\* The attempt that has just ended yielded a value.
YieldedValue == HasText /\ locals.text.s \in ExtractableTexts

\* C15: the attempts of an image are numbered 1..MAX_RETRIES; a further
\* attempt is begun only when the one before ended in an exception that is
\* no rate limit, in empty text or in unparsable text; when an attempt has
\* yielded a value no further attempt is begun for the image and exactly one
\* record of it has been appended.
C15_RetryOnlyAfterFailure ==
    /\ attempt \in 0..MAX_RETRIES
    /\ idx > 0 => attempt >= 1
    /\ failed <= attempt
    /\ (pc = "admit" /\ attempt > 1) =>
         /\ failed = attempt - 1
         /\ fatal = 0
         /\ EndedInException \/ EndedInEmptyText \/ EndedInUnparsableText
    /\ YieldedValue =>
         /\ pc \in {"for", "finally", "done"}
         /\ Len(results) = idx
         /\ Cardinality({i \in 1..Len(recOf) : recOf[i] = idx}) = 1

\* One admission has been granted for each attempt that has called the
\* service, and one for the attempt that is about to.
OneAdmissionPerAttempt ==
    admissions = Len(calls) + (IF pc = "upload" THEN 1 ELSE 0)

\* C16 as claimed: an attempt is one admission followed by one network
\* interaction with the service, and never more than one.
C16_OneInteractionPerAttempt ==
    /\ OneAdmissionPerAttempt
    /\ Len(net) <= 1
\* C16: an attempt is one admission followed by at most two network
\* interactions with the service, in this order: one upload of the file and,
\* when it has returned, one generate_content call; no call is made without
\* the attempt's own admission before it, and no attempt uploads twice or
\* generates twice.
C16_UploadThenGenerate ==
    /\ OneAdmissionPerAttempt
    /\ net \in {<<>>, <<"upload">>, <<"upload", "generate">>}
    /\ pc = "upload" => net = <<>>
    /\ pc = "generate" => net = <<"upload">>
    /\ Len(request_times) > 0 => admissions > 0
C16_Witness ==
    /\ pc = "for"
    /\ attempt = 2
    /\ admissions = 2
    /\ calls = <<0, 0>>
    /\ net = <<"upload", "generate">>
    /\ Len(results) = 1

\* When the call an admission was granted for has ended, however it ended,
\* one timestamp has been appended since the admission.
C17_Stamped ==
    /\ stamps \in {0, 1}
    /\ (admissions > 0 /\ pc \notin {"upload", "generate"}) => stamps = 1
\* A step changes request_times only by appending the time of the clock or
\* by dropping entries from its front.
C17_Frame ==
    \/ request_times' = Append(request_times, clock')
    \/ \E n \in 0..Len(request_times) :
         request_times' = SubSeq(request_times, n + 1, Len(request_times))
\* C17: every granted admission records one timestamp: between the return
\* of one wait_for_rate_slot and the start of the next exactly one timestamp
\* is appended to request_times, whatever the outcome of the admitted call,
\* and nothing but this append and the purge changes request_times.
C17_OneTimestampPerAdmission == [](C17_Stamped) /\ [][C17_Frame]_vars

\* The span of the text s from its first "{" to its last "}", and the one
\* from its first "[" to its last "]" (<<>> when there is none).
ObjSpan(s) ==
    IF Find(s, <<"{">>, 1) # 0 /\ RFind(s, <<"}">>) > Find(s, <<"{">>, 1)
    THEN Slice(s, Find(s, <<"{">>, 1), RFind(s, <<"}">>)) ELSE <<>>
ArrSpan(s) ==
    IF Find(s, <<"[">>, 1) # 0 /\ RFind(s, <<"]">>) > Find(s, <<"[">>, 1)
    THEN Slice(s, Find(s, <<"[">>, 1), RFind(s, <<"]">>)) ELSE <<>>

\* C18: in the last stage, for a text that holds both spans, when the object
\* span does not parse and the array span is well-formed JSON, the value of
\* the array span is returned.
C18_ArrayWhenObjectIllFormed ==
    Extracted =>
      LET s == locals.text.s
      IN  ( /\ ~Stage1(s).ok /\ ~Stage2(s).ok
            /\ ObjSpan(s) # <<>> /\ ArrSpan(s) # <<>>
            /\ ~JsonLoads(DropTrailingCommas(ObjSpan(s), 1)).ok
            /\ JsonLoads(ArrSpan(s)).ok )
          => locals.parsed = JsonLoads(ArrSpan(s)).val

\* The time the step sleeps for: what the clock gains beyond the drift.
Slept == (clock' - clock) - (drift' - drift)

\* C19: every run ends; a run that entered the batch loop has gone through
\* the persistence step when it ends; no run makes more than
\* N x MAX_RETRIES admissions, and no admission sleeps for more than
\* WINDOW_SECONDS.
C19_SleepBounded == pc = "admit" => Slept \in 0..WINDOW_SECONDS
C19_RunTerminates ==
    /\ <>Ended
    /\ [](Ended /\ N > 0 => persisted = 1)
    /\ [](admissions <= N * MAX_RETRIES)
    /\ [][C19_SleepBounded]_vars
C19_Witness ==
    /\ Ended /\ N = 3 /\ persisted = 1
    /\ admissions = N * MAX_RETRIES
    /\ clock >= 2 * WINDOW_SECONDS

\* json.loads of the text of each reply, looked at once.
LoadsOf == [q \in Replies |-> JsonLoads(TextOf[q].s)]

\* C20: an attempt whose text is valid JSON, the literal null included, ends
\* the attempts of its image: it is not counted as failed, no further
\* attempt follows, and the record appended for the image is the success
\* record built from the value json.loads gives for the text.
C20_ValidJsonEndsRetry ==
    (HasText /\ LoadsOf[locals.resp].ok) =>
      /\ pc \in {"for", "finally", "done"}
      /\ failed = attempt - 1
      /\ Len(results) = idx
      /\ ~HasError(results[idx])
      /\ results[idx] = BuildRecord(Name, LoadsOf[locals.resp].val)
====
